---- MODULE Spec2Model ----
(***************************************************************************)
(* A model of BWData (src/bwdata.py): parameter filling and validation,    *)
(* the get_mentions pagination loop, the accessors and the composites.     *)
(*                                                                         *)
(* Python values are tagged tuples: <<"none">>, <<"str", s>>, <<"int", n>>,*)
(* <<"strlist", seq>>, <<"intlist", seq>>.  A keyword-argument mapping     *)
(* (kwargs) is a sequence of <<name, value>> pairs with distinct names,    *)
(* in insertion order.  A parameter set (dict) is a function from names to *)
(* values.                                                                 *)
(***************************************************************************)
EXTENDS Integers, Sequences, FiniteSets, TLC

(* ---------------------------------------------------------------- bounds *)

\* Number of pages the mocked transport answers page by page.
NumPages == 3
\* Largest number of mentions on one page of the mocked transport.
MaxItems == 2
\* Largest max_pages argument tried.
MaxPagesArg == 3

(* ---------------------------------------------------------------- values *)

None == <<"none">>
StrV(s) == <<"str", s>>
IntV(n) == <<"int", n>>
StrListV(q) == <<"strlist", q>>
IntListV(q) == <<"intlist", q>>

IsNone(v) == v[1] = "none"
IsList(v) == v[1] \in {"strlist", "intlist"}

\* Python truthiness: `not v`.
Falsy(v) ==
    \/ v[1] = "none"
    \/ v[1] = "str" /\ v[2] = ""
    \/ v[1] = "int" /\ v[2] = 0
    \/ IsList(v) /\ Len(v[2]) = 0

\* isinstance(v, t) for t in str, int, list.
IsInstance(v, t) ==
    CASE t = "str" -> v[1] = "str"
      [] t = "int" -> v[1] = "int"
      [] t = "list" -> IsList(v)
      [] OTHER -> FALSE

(* ------------------------------------------------------- dicts and kwargs *)

EmptyDict == <<>>
Put(d, k, v) == [x \in (DOMAIN d) \cup {k} |-> IF x = k THEN v ELSE d[x]]
Keys(data) == {data[i][1] : i \in DOMAIN data}
Has(data, k) == k \in Keys(data)
Get(data, k) == data[CHOOSE i \in DOMAIN data : data[i][1] = k][2]

(* -------------------------------------------------------- the collaborators *)

\* registry.ids, registry.resource_id_name, registry.resource_type
ids == [q1 |-> 101, q2 |-> 102]
resource_id_name == "queryId"
resource_type == "query"

\* name in self.ids
InIds(name) == name[1] = "str" /\ name[2] \in DOMAIN ids

\* filters.params: parameter name -> declared type
FilterParams ==
    [page |-> "int", pageSize |-> "int", category |-> "list", orderBy |-> "str"]

\* filters.special_options: parameter name -> legal values
SpecialOptions ==
    [sentiment |-> {"positive", "negative", "neutral"},
     orderDirection |-> {"asc", "desc"}]

\* The ids behind the category names, for _name_to_id.
CategoryIds == [news |-> 11, tech |-> 12]

\* _name_to_id(attribute, setting): names to ids for the id-valued filters,
\* every other value unchanged.
NameToId(param, setting) ==
    IF /\ param \in {"category", "categories"}
       /\ setting[1] = "strlist"
       /\ \A i \in DOMAIN setting[2] : setting[2][i] \in DOMAIN CategoryIds
    THEN IntListV([i \in DOMAIN setting[2] |-> CategoryIds[setting[2][i]]])
    ELSE setting

\* (datetime.date.today() + timedelta(days=1)).isoformat(), the clock fixed.
Tomorrow == StrV("tomorrow")

(* ------------------------------------------------------------ _valid_input *)

\* `setting not in filters.special_options[param]`: membership of the value
\* itself in the list of legal values; a list value is no element of it.
InOptions(param, setting) ==
    setting[1] = "str" /\ setting[2] \in SpecialOptions[param]

ValidInputAlways(param, setting) == TRUE

ValidInput(param, setting) ==
    IF param \in DOMAIN FilterParams /\ ~IsInstance(setting, FilterParams[param])
    THEN FALSE
    ELSE IF param \in DOMAIN SpecialOptions /\ ~InOptions(param, setting)
    THEN FALSE
    ELSE TRUE

(* ------------------------------------------------------------ _fill_params *)

Ok(filled) == [ok |-> TRUE, filled |-> filled, err |-> "", arg |-> ""]
Raise(err, arg) == [ok |-> FALSE, filled |-> EmptyDict, err |-> err, arg |-> arg]

\* lines 586-595: the entity id, the dates and the two order keys.
FillBase(name, startDate, data) ==
    LET f0 == Put(EmptyDict, resource_id_name, IntV(ids[name[2]]))
        f1 == Put(f0, "startDate", startDate)
        f2 == Put(f1, "endDate",
                  IF Has(data, "endDate") THEN Get(data, "endDate") ELSE Tomorrow)
        f3 == IF Has(data, "orderBy")
              THEN Put(f2, "orderBy", Get(data, "orderBy")) ELSE f2
    IN  IF Has(data, "orderDirection")
        THEN Put(f3, "orderDirection", Get(data, "orderDirection")) ELSE f3

\* lines 597-602: every filter, in insertion order, resolved then validated.
RECURSIVE FillLoop(_, _, _)
FillLoop(data, i, filled) ==
    IF i > Len(data) THEN Ok(filled)
    ELSE LET param == data[i][1]
             setting == NameToId(param, data[i][2])
         IN  IF ValidInput(param, setting)
             THEN FillLoop(data, i + 1, Put(filled, param, setting))
             ELSE Raise("InvalidFilterError", param)

FillParamsDateFirst(name, startDate, data) ==
    IF Falsy(name) THEN Raise("MissingNameError", "")
    ELSE IF Falsy(startDate) THEN Raise("MissingStartDateError", "")
    ELSE IF ~InIds(name) THEN Raise("UnknownEntityError", name[2])
    ELSE FillLoop(data, 1, FillBase(name, startDate, data))

\* _fill_params, lines 578-604.
FillParams(name, startDate, data) ==
    IF Falsy(name) THEN Raise("MissingNameError", "")
    ELSE IF ~InIds(name) THEN Raise("UnknownEntityError", name[2])
    ELSE IF Falsy(startDate) THEN Raise("MissingStartDateError", "")
    ELSE FillLoop(data, 1, FillBase(name, startDate, data))

(* --------------------------------------------------------------- the state *)

\* Concurrent invocations on one instance.
Procs == {1, 2}

VARIABLES
    transport,      \* the mocked project.get: what the remote API answers
    pc,             \* per invocation: "idle", "loop" (inside the while), "done"
    op,             \* per invocation: the method called and its arguments
    params,         \* per invocation: the local `params` of get_mentions
    all_mentions,   \* per invocation: the local `all_mentions` of get_mentions
    calls,          \* per invocation: the project.get requests it has issued
    outcome,        \* per invocation: "none", "returned" or "raised"
    error,          \* per invocation: the error raised, <<kind, argument>>
    retval          \* per invocation: the value returned

vars == <<transport, pc, op, params, all_mentions, calls, outcome, error, retval>>

(* ------------------------------------------------------------ the transport *)

\* One page of data/mentions/fulltext: an envelope with an `errors` key, or
\* one with `results`, n mentions.
PageResponses == [errors : {TRUE}, n : {0}] \cup [errors : {FALSE}, n : 0..MaxItems]

\* The date ranges of an entity, as queries/{id}/date-range lists them.
DateRangeList == <<[id |-> 1, name |-> "lastweek"], [id |-> 2, name |-> "lastmonth"]>>

\* The mentions of page i: the k-th mention of page i is <<i, k>>.
Mentions(i, n) == [k \in 1..n |-> <<i, k>>]

\* The envelope of page i: pages past the mocked ones hold transport.tail
\* mentions each.
PageEnvelope(t, i) ==
    IF i + 1 \in DOMAIN t.pages
    THEN [errors |-> t.pages[i + 1].errors, results |-> Mentions(i, t.pages[i + 1].n)]
    ELSE [errors |-> FALSE, results |-> Mentions(i, t.tail)]

\* project.get(endpoint, params) for the other endpoints: a deterministic
\* transport whose payload tells the request it answers.
TransportGet(endpoint, p) ==
    [results |-> <<"results", endpoint, p>>,
     topics |-> <<"topics", endpoint, p>>,
     mentionsCount |-> <<"mentionsCount", endpoint, p>>]

Req(endpoint, p) == [endpoint |-> endpoint, params |-> p]

(* ---------------------------------------------------------------- the inputs *)

Names == {None, StrV(""), StrV("q1"), StrV("ghost")}
StartDates == {None, StrV("2021-01-01")}
MaxPagesArgs == {None} \cup {IntV(m) : m \in 0..MaxPagesArg}

\* Filters tried on get_mentions.
MentionsFilters ==
    {<<"page", IntV(1)>>, <<"page", StrV("x")>>, <<"pageSize", IntV(2)>>}

\* The keyword mappings of at most n filters out of pool, no name twice.
KwargsOf(pool, n) ==
    {q \in UNION {[1..k -> pool] : k \in 0..n} :
        \A i, j \in DOMAIN q : i # j => q[i][1] # q[j][1]}

NewOp(method, name, startDate, kwargs) ==
    [method |-> method, name |-> name, startDate |-> startDate, kwargs |-> kwargs,
     max_pages |-> None, y_axis |-> None, x_axis |-> None, breakdown_by |-> None,
     date_ranges |-> None]

NoError == <<"", "">>
\* A returned value carries its kind: <<"list", mentions>>, <<"dict", mapping>>,
\* <<"bool", b>>, <<"envelope", json>>, <<"payload", json>>.
NoValue == <<"none">>

\* The invocation ends: it returns, or the error propagates to the caller.
Returns(self, value) ==
    /\ pc' = [pc EXCEPT ![self] = "done"]
    /\ outcome' = [outcome EXCEPT ![self] = "returned"]
    /\ retval' = [retval EXCEPT ![self] = value]
    /\ UNCHANGED error

Raises(self, err, arg) ==
    /\ pc' = [pc EXCEPT ![self] = "done"]
    /\ outcome' = [outcome EXCEPT ![self] = "raised"]
    /\ error' = [error EXCEPT ![self] = <<err, arg>>]
    /\ UNCHANGED retval

(* --------------------------------------------------------------- get_mentions *)

DefaultPageSize == 5000

\* lines 29-30: pageSize and the starting page.
MentionsParams(filled, kwargs) ==
    LET p1 == Put(filled, "pageSize",
                  IF Has(kwargs, "pageSize") THEN Get(kwargs, "pageSize")
                  ELSE IntV(DefaultPageSize))
    IN  Put(p1, "page", IF Has(kwargs, "page") THEN Get(kwargs, "page") ELSE IntV(0))

LoopContinuesInclusive(max_pages, page) ==
    IF IsNone(max_pages) THEN TRUE ELSE page[2] <= max_pages[2]

LoopContinuesAlways(max_pages, page) == TRUE

\* line 33: the while condition.
LoopContinues(max_pages, page) ==
    IF IsNone(max_pages) THEN TRUE ELSE page[2] < max_pages[2]

HasErrorsIgnored(mentions) == FALSE

\* line 610: "errors" in mentions
HasErrors(mentions) == mentions.errors

AccumulateOverwrites(all, next) == next

\* line 37: all_mentions += next_mentions
Accumulate(all, next) == all \o next

NextPageSkips(page) == IntV(page[2] + 2)

\* line 44: params["page"] += 1
NextPage(page) == IntV(page[2] + 1)

\* The model follows the loop up to this page index.
MaxPageIndex == NumPages + 2

\* lines 28-31: the call, up to the first test of the while condition.
CallGetMentions(self) ==
    /\ pc[self] = "idle"
    /\ \E name \in Names, startDate \in StartDates, max_pages \in MaxPagesArgs,
          kwargs \in KwargsOf(MentionsFilters, 1) :
          LET r == FillParams(name, startDate, kwargs) IN
          /\ op' = [op EXCEPT ![self] =
                       [NewOp("get_mentions", name, startDate, kwargs)
                           EXCEPT !.max_pages = max_pages]]
          /\ IF r.ok
             THEN /\ params' = [params EXCEPT ![self] = MentionsParams(r.filled, kwargs)]
                  /\ pc' = [pc EXCEPT ![self] = "loop"]
                  /\ UNCHANGED <<outcome, error, retval>>
             ELSE /\ Raises(self, r.err, r.arg)
                  /\ UNCHANGED params
    /\ UNCHANGED <<transport, all_mentions, calls>>

\* line 33 false, then lines 46-48: the loop ends at the cap.
WhileExit(self) ==
    /\ pc[self] = "loop"
    /\ ~LoopContinues(op[self].max_pages, params[self]["page"])
    /\ Returns(self, <<"list", all_mentions[self]>>)
    /\ UNCHANGED <<transport, op, params, all_mentions, calls>>

FetchPageShared(self) ==
    /\ pc[self] = "loop"
    /\ LoopContinues(op[self].max_pages, params[self]["page"])
    /\ params[self]["page"][2] < MaxPageIndex
    /\ LET page == params[self]["page"]
           sent == Put(params[self], "page", page)
           mentions == PageEnvelope(transport, page[2])
       IN  /\ calls' = [calls EXCEPT ![self] =
                           Append(@, Req("data/mentions/fulltext", sent))]
           /\ IF HasErrors(mentions)
              THEN /\ Raises(self, "MentionsFetchError", "")
                   /\ UNCHANGED <<params, all_mentions>>
              ELSE IF Len(mentions.results) > 0
              THEN /\ all_mentions' = [all_mentions EXCEPT ![self] =
                                          Accumulate(@, mentions.results)]
                   /\ params' = [q \in Procs |->
                                    IF q = self THEN Put(sent, "page", NextPage(page))
                                    ELSE IF pc[q] = "loop"
                                    THEN Put(params[q], "page", NextPage(page))
                                    ELSE params[q]]
                   /\ UNCHANGED <<pc, outcome, error, retval>>
              ELSE /\ Returns(self, <<"list", all_mentions[self]>>)
                   /\ UNCHANGED <<params, all_mentions>>
    /\ UNCHANGED <<transport, op>>

\* line 33 true, then lines 34-44 with _get_mentions_page (606-613): one
\* iteration of the loop.
FetchPage(self) ==
    /\ pc[self] = "loop"
    /\ LoopContinues(op[self].max_pages, params[self]["page"])
    /\ params[self]["page"][2] < MaxPageIndex
    /\ LET page == params[self]["page"]
           sent == Put(params[self], "page", page)
           mentions == PageEnvelope(transport, page[2])
       IN  /\ calls' = [calls EXCEPT ![self] =
                           Append(@, Req("data/mentions/fulltext", sent))]
           /\ IF HasErrors(mentions)
              THEN /\ Raises(self, "MentionsFetchError", "")
                   /\ UNCHANGED <<params, all_mentions>>
              ELSE IF Len(mentions.results) > 0
              THEN /\ all_mentions' = [all_mentions EXCEPT ![self] =
                                          Accumulate(@, mentions.results)]
                   /\ params' = [params EXCEPT ![self] = Put(sent, "page", NextPage(page))]
                   /\ UNCHANGED <<pc, outcome, error, retval>>
              ELSE /\ Returns(self, <<"list", all_mentions[self]>>)
                   /\ UNCHANGED <<params, all_mentions>>
    /\ UNCHANGED <<transport, op>>

(* ---------------------------------------------------------------- the machine *)

Transports(pageSeqs, tails, dateRanges) ==
    [pages : pageSeqs, tail : tails, date_ranges : dateRanges]

IdleProcs ==
    /\ pc = [p \in Procs |-> "idle"]
    /\ op = [p \in Procs |-> NewOp("", None, None, <<>>)]
    /\ params = [p \in Procs |-> EmptyDict]
    /\ all_mentions = [p \in Procs |-> <<>>]
    /\ calls = [p \in Procs |-> <<>>]
    /\ outcome = [p \in Procs |-> "none"]
    /\ error = [p \in Procs |-> NoError]
    /\ retval = [p \in Procs |-> NoValue]

\* get_mentions, one invocation, against every mocked transport.
Init ==
    /\ transport \in Transports([1..NumPages -> PageResponses], {0, 1}, {DateRangeList})
    /\ IdleProcs

Next ==
    \/ CallGetMentions(1)
    \/ WhileExit(1)
    \/ FetchPage(1)

Spec == Init /\ [][Next]_vars

(* ------------------------------------------- _fill_params and _valid_input *)

\* Largest number of filters in one keyword mapping tried on _fill_params.
MaxFilters == 2

\* Filters tried on _fill_params and _valid_input: conforming and
\* non-conforming values of typed, enumerated and undeclared parameters.
FillFilters ==
    {<<"page", IntV(1)>>, <<"page", StrV("x")>>,
     <<"category", StrListV(<<"news", "tech">>)>>, <<"category", StrV("news")>>,
     <<"orderBy", StrV("date")>>, <<"orderBy", IntV(7)>>,
     <<"orderDirection", StrV("asc")>>, <<"orderDirection", StrV("sideways")>>,
     <<"sentiment", StrV("positive")>>, <<"sentiment", StrV("angry")>>,
     <<"sentiment", StrListV(<<"positive", "negative">>)>>,
     <<"queryId", IntV(999)>>,
     <<"endDate", StrV("2021-02-01")>>,
     <<"custom", StrV("anything")>>}

\* _fill_params(name, startDate, data), lines 578-604.
CallFillParams(self) ==
    /\ pc[self] = "idle"
    /\ \E name \in Names, startDate \in StartDates,
          data \in KwargsOf(FillFilters, MaxFilters) :
          LET r == FillParams(name, startDate, data) IN
          /\ op' = [op EXCEPT ![self] = NewOp("_fill_params", name, startDate, data)]
          /\ IF r.ok THEN Returns(self, <<"dict", r.filled>>) ELSE Raises(self, r.err, r.arg)
    /\ UNCHANGED <<transport, params, all_mentions, calls>>

\* _valid_input(param, setting), lines 615-621: the arguments are kept as
\* the one entry of op.kwargs.
CallValidInput(self) ==
    /\ pc[self] = "idle"
    /\ \E f \in FillFilters, g \in FillFilters :
          LET param == f[1]
              setting == g[2]
          IN  /\ op' = [op EXCEPT ![self] =
                           NewOp("_valid_input", None, None, <<<<param, setting>>>>)]
              /\ Returns(self, <<"bool", ValidInput(param, setting)>>)
    /\ UNCHANGED <<transport, params, all_mentions, calls>>

\* One fixed transport, for the operations that do not page.
FixedTransport ==
    [pages |-> [i \in 1..NumPages |-> [errors |-> FALSE, n |-> 0]],
     tail |-> 0, date_ranges |-> DateRangeList]

InitFill ==
    /\ transport = FixedTransport
    /\ IdleProcs

NextFill ==
    \/ CallFillParams(1)
    \/ CallValidInput(1)

SpecFill == InitFill /\ [][NextFill]_vars

\* Invocation p is a finished _fill_params call.
FillDone(p) == op[p].method = "_fill_params" /\ pc[p] = "done"

\* The required arguments of invocation p pass lines 579-584.
RequiredGiven(p) ==
    /\ ~Falsy(op[p].name)
    /\ InIds(op[p].name)
    /\ ~Falsy(op[p].startDate)

\* The value of the i-th filter of data after name-to-id resolution.
Resolved(data, i) == NameToId(data[i][1], data[i][2])

\* C5 (as claimed): whenever _fill_params succeeds, whatever the filters,
\* the result maps resource_id_name to ids[name].
C5_EntityIdKept ==
    \A p \in Procs :
        (FillDone(p) /\ outcome[p] = "returned")
        => retval[p][2][resource_id_name] = IntV(ids[op[p].name[2]])

\* C6: with the required arguments given, a filter with a declared type
\* whose resolved value is not of that type makes _fill_params fail with
\* InvalidFilterError, naming that filter when no filter before it fails;
\* when the resolved value is of the type and every other filter is valid,
\* _fill_params succeeds and the result maps the filter to the resolved value.
C6_TypedFilters ==
    \A p \in Procs :
        (FillDone(p) /\ RequiredGiven(p)) =>
            LET data == op[p].kwargs IN
            \A i \in DOMAIN data :
                data[i][1] \in DOMAIN FilterParams =>
                    IF ~IsInstance(Resolved(data, i), FilterParams[data[i][1]])
                    THEN /\ outcome[p] = "raised"
                         /\ error[p][1] = "InvalidFilterError"
                         /\ (\A j \in 1..(i - 1) : ValidInput(data[j][1], Resolved(data, j)))
                            => error[p][2] = data[i][1]
                    ELSE (\A j \in DOMAIN data \ {i} : ValidInput(data[j][1], Resolved(data, j)))
                         => /\ outcome[p] = "returned"
                            /\ retval[p][2][data[i][1]] = Resolved(data, i)

\* A list of category names, declared a list, is resolved to ids and kept,
\* next to a second filter.
C6_Witness ==
    \E p \in Procs :
        /\ FillDone(p)
        /\ RequiredGiven(p)
        /\ Len(op[p].kwargs) = 2
        /\ op[p].kwargs[2] = <<"category", StrListV(<<"news", "tech">>)>>
        /\ outcome[p] = "returned"
        /\ retval[p][2]["category"] = IntListV(<<11, 12>>)

\* value is a member of S, or a sequence whose elements all are.
MemberOrAllMembers(value, S) ==
    \/ value[1] = "str" /\ value[2] \in S
    \/ value[1] = "strlist" /\ \A i \in DOMAIN value[2] : value[2][i] \in S

\* C7 (as claimed): for an enumerated parameter, _valid_input is true iff
\* the value is a legal value or a sequence of legal values.
C7_EnumeratedIff ==
    \A p \in Procs :
        ( /\ op[p].method = "_valid_input"
          /\ pc[p] = "done"
          /\ op[p].kwargs[1][1] \in DOMAIN SpecialOptions )
        => (retval[p][2] <=>
              MemberOrAllMembers(op[p].kwargs[1][2], SpecialOptions[op[p].kwargs[1][1]]))

\* C8 (as claimed): orderBy and orderDirection never make _fill_params fail
\* with InvalidFilterError, and a successful result holds them as supplied.
C8_OrderPassThrough ==
    \A p \in Procs :
        FillDone(p) =>
            /\ ~( /\ outcome[p] = "raised"
                  /\ error[p][1] = "InvalidFilterError"
                  /\ error[p][2] \in {"orderBy", "orderDirection"} )
            /\ outcome[p] = "returned" =>
                  \A k \in {"orderBy", "orderDirection"} \cap Keys(op[p].kwargs) :
                      retval[p][2][k] = Get(op[p].kwargs, k)

(* ------------------------------------------- the accessors and composites *)

\* What running a method to its end gives: whether it returned, the requests
\* it issued in order, its local params, and its value or its error.
Done(reqs, p, value) ==
    [ok |-> TRUE, calls |-> reqs, params |-> p, value |-> value, err |-> "", arg |-> ""]
Failed(reqs, err, arg) ==
    [ok |-> FALSE, calls |-> reqs, params |-> EmptyDict, value |-> NoValue,
     err |-> err, arg |-> arg]

\* The nested key an accessor takes out of the envelope ("" for none).
Unwrap(envelope, key) ==
    IF key = "" THEN <<"envelope", envelope>> ELSE <<"payload", envelope[key]>>

\* The shape of the simple accessors: fill the parameters, one request,
\* unwrap (e.g. lines 325-326).
AccessorRun(endpoint, key, name, startDate, kwargs) ==
    LET r == FillParams(name, startDate, kwargs) IN
    IF r.ok
    THEN Done(<<Req(endpoint, r.filled)>>, r.filled,
              Unwrap(TransportGet(endpoint, r.filled), key))
    ELSE Failed(<<>>, r.err, r.arg)

NumMentionsRun(name, startDate, kwargs) ==
    AccessorRun("data/mentions/count", "", name, startDate, kwargs)
GetTopicsRun(name, startDate, kwargs) ==
    AccessorRun("data/volume/topics/queries", "topics", name, startDate, kwargs)
GetSummarySentimentRun(name, startDate, kwargs) ==
    AccessorRun("data/volume/sentiment/days", "results", name, startDate, kwargs)
GetSummaryTopsitesRun(name, startDate, kwargs) ==
    AccessorRun("data/volume/topsites/queries", "results", name, startDate, kwargs)
GetSummaryPagetypesRun(name, startDate, kwargs) ==
    AccessorRun("data/volume/queries/pageTypes", "results", name, startDate, kwargs)

\* get_summary, lines 308-311: the three accessors in turn, each called with
\* name and startDate only; the first that raises ends the call.
GetSummaryRun(name, startDate, kwargs) ==
    LET s == GetSummarySentimentRun(name, startDate, <<>>)
        t == GetSummaryTopsitesRun(name, startDate, <<>>)
        g == GetSummaryPagetypesRun(name, startDate, <<>>)
    IN  IF ~s.ok THEN Failed(s.calls, s.err, s.arg)
        ELSE IF ~t.ok THEN Failed(s.calls \o t.calls, t.err, t.arg)
        ELSE IF ~g.ok THEN Failed(s.calls \o t.calls \o g.calls, g.err, g.arg)
        ELSE Done(s.calls \o t.calls \o g.calls, EmptyDict,
                  <<"dict", [sentiment |-> s.value, topsites |-> t.value,
                             pagetypes |-> g.value]>>)

\* line 84: y_axis and x_axis and breakdown_by
AxesPresent(y_axis, x_axis, breakdown_by) ==
    ~Falsy(y_axis) /\ ~Falsy(x_axis) /\ ~Falsy(breakdown_by)

\* lines 87-93 of get_chart: parameters, dim1Args/dim2Args resolved, request.
ChartRequest(name, startDate, y_axis, x_axis, breakdown_by, kwargs) ==
    LET r == FillParams(name, startDate, kwargs) IN
    IF ~r.ok THEN Failed(<<>>, r.err, r.arg)
    ELSE LET p1 == IF "dim1Args" \in DOMAIN r.filled
                   THEN Put(r.filled, "dim1Args",
                            NameToId(x_axis[2], r.filled["dim1Args"]))
                   ELSE r.filled
             p2 == IF "dim2Args" \in DOMAIN p1
                   THEN Put(p1, "dim2Args", NameToId(breakdown_by[2], p1["dim2Args"]))
                   ELSE p1
             endpoint == "data/" \o y_axis[2] \o "/" \o x_axis[2] \o "/" \o breakdown_by[2]
         IN  Done(<<Req(endpoint, p2)>>, p2, Unwrap(TransportGet(endpoint, p2), ""))

GetChartRunFillFirst(name, startDate, y_axis, x_axis, breakdown_by, kwargs) ==
    LET r == FillParams(name, startDate, kwargs) IN
    IF ~r.ok THEN Failed(<<>>, r.err, r.arg)
    ELSE IF ~AxesPresent(y_axis, x_axis, breakdown_by)
    THEN Failed(<<>>, "MissingChartAxesError", "")
    ELSE ChartRequest(name, startDate, y_axis, x_axis, breakdown_by, kwargs)

\* get_chart, lines 84-93.
GetChartRun(name, startDate, y_axis, x_axis, breakdown_by, kwargs) ==
    IF ~AxesPresent(y_axis, x_axis, breakdown_by)
    THEN Failed(<<>>, "MissingChartAxesError", "")
    ELSE ChartRequest(name, startDate, y_axis, x_axis, breakdown_by, kwargs)

\* line 428: [dr["id"] for dr in date_range_list if dr["name"] in date_ranges]
RECURSIVE DateRangeIds(_, _)
DateRangeIds(date_range_list, names) ==
    IF date_range_list = <<>> THEN <<>>
    ELSE LET dr == Head(date_range_list)
             rest == DateRangeIds(Tail(date_range_list), names)
         IN  IF \E i \in DOMAIN names : names[i] = dr.name
             THEN <<dr.id>> \o rest ELSE rest

\* get_date_range_comparison, lines 426-435, with _get_date_ranges (576).
\* ids[name] of an absent name is Python's own KeyError; `in None` over a
\* non-empty list is a TypeError.
GetDateRangeComparisonRun(t, name, startDate, date_ranges, kwargs) ==
    IF ~InIds(name) THEN Failed(<<>>, "KeyError", "")
    ELSE
    LET query_id == ids[name[2]]
        listing == Req("queries/" \o ToString(query_id) \o "/date-range", EmptyDict)
        date_range_list == t.date_ranges
    IN  IF IsNone(date_ranges)
        THEN IF date_range_list = <<>>
             THEN Failed(<<listing>>, "InvalidDateRangeError", "")
             ELSE Failed(<<listing>>, "TypeError", "")
        ELSE
        LET date_range_ids == DateRangeIds(date_range_list, date_ranges[2]) IN
        IF date_range_ids = <<>>
        THEN Failed(<<listing>>, "InvalidDateRangeError", "")
        ELSE
        LET r == FillParams(name, startDate, kwargs) IN
        IF ~r.ok THEN Failed(<<listing>>, r.err, r.arg)
        ELSE LET p == Put(r.filled, "dateRanges", IntListV(date_range_ids))
                 endpoint == "data/volume/dateRanges/days"
             IN  Done(<<listing, Req(endpoint, p)>>, p,
                      Unwrap(TransportGet(endpoint, p), "results"))

\* Filters tried on the accessors.
OpsFilters ==
    {<<"sentiment", StrV("positive")>>, <<"sentiment", StrV("angry")>>,
     <<"dim1Args", StrListV(<<"news", "tech">>)>>}

Axes == {None, StrV("volume"), StrV("categories")}
DateRangeArgs == {None, StrListV(<<"lastweek">>), StrListV(<<"lastyear">>)}

\* The whole of a method that does not page, as one step.
Finish(self, o, run) ==
    /\ op' = [op EXCEPT ![self] = o]
    /\ calls' = [calls EXCEPT ![self] = run.calls]
    /\ params' = [params EXCEPT ![self] = run.params]
    /\ IF run.ok THEN Returns(self, run.value) ELSE Raises(self, run.err, run.arg)
    /\ UNCHANGED <<transport, all_mentions>>

NumMentions(self) ==
    /\ pc[self] = "idle"
    /\ \E name \in Names, startDate \in StartDates, kwargs \in KwargsOf(OpsFilters, 1) :
        Finish(self, NewOp("num_mentions", name, startDate, kwargs),
               NumMentionsRun(name, startDate, kwargs))

GetTopics(self) ==
    /\ pc[self] = "idle"
    /\ \E name \in Names, startDate \in StartDates, kwargs \in KwargsOf(OpsFilters, 1) :
        Finish(self, NewOp("get_topics", name, startDate, kwargs),
               GetTopicsRun(name, startDate, kwargs))

GetSummarySentiment(self) ==
    /\ pc[self] = "idle"
    /\ \E name \in Names, startDate \in StartDates, kwargs \in KwargsOf(OpsFilters, 1) :
        Finish(self, NewOp("get_summary_sentiment", name, startDate, kwargs),
               GetSummarySentimentRun(name, startDate, kwargs))

GetSummaryTopsites(self) ==
    /\ pc[self] = "idle"
    /\ \E name \in Names, startDate \in StartDates, kwargs \in KwargsOf(OpsFilters, 1) :
        Finish(self, NewOp("get_summary_topsites", name, startDate, kwargs),
               GetSummaryTopsitesRun(name, startDate, kwargs))

GetSummaryPagetypes(self) ==
    /\ pc[self] = "idle"
    /\ \E name \in Names, startDate \in StartDates, kwargs \in KwargsOf(OpsFilters, 1) :
        Finish(self, NewOp("get_summary_pagetypes", name, startDate, kwargs),
               GetSummaryPagetypesRun(name, startDate, kwargs))

GetSummary(self) ==
    /\ pc[self] = "idle"
    /\ \E name \in Names, startDate \in StartDates, kwargs \in KwargsOf(OpsFilters, 1) :
        Finish(self, NewOp("get_summary", name, startDate, kwargs),
               GetSummaryRun(name, startDate, kwargs))

GetChart(self) ==
    /\ pc[self] = "idle"
    /\ \E name \in Names, startDate \in StartDates, kwargs \in KwargsOf(OpsFilters, 1),
       y_axis \in Axes, x_axis \in Axes, breakdown_by \in Axes :
        Finish(self,
               [NewOp("get_chart", name, startDate, kwargs)
                   EXCEPT !.y_axis = y_axis, !.x_axis = x_axis,
                          !.breakdown_by = breakdown_by],
               GetChartRun(name, startDate, y_axis, x_axis, breakdown_by, kwargs))

GetDateRangeComparison(self) ==
    /\ pc[self] = "idle"
    /\ \E name \in Names, startDate \in StartDates, kwargs \in KwargsOf(OpsFilters, 1),
       date_ranges \in DateRangeArgs :
        Finish(self,
               [NewOp("get_date_range_comparison", name, startDate, kwargs)
                   EXCEPT !.date_ranges = date_ranges],
               GetDateRangeComparisonRun(transport, name, startDate, date_ranges, kwargs))

\* Two mocked transports of mentions, with and without date ranges.
InitOps ==
    /\ transport \in Transports(
           {[i \in 1..NumPages |-> [errors |-> FALSE, n |-> 0]],
            [i \in 1..NumPages |-> [errors |-> FALSE, n |-> IF i = 1 THEN MaxItems ELSE 0]]},
           {0}, {DateRangeList, <<>>})
    /\ IdleProcs

NextOps ==
    \/ CallGetMentions(1)
    \/ WhileExit(1)
    \/ FetchPage(1)
    \/ NumMentions(1)
    \/ GetTopics(1)
    \/ GetSummarySentiment(1)
    \/ GetSummaryTopsites(1)
    \/ GetSummaryPagetypes(1)
    \/ GetSummary(1)
    \/ GetChart(1)
    \/ GetDateRangeComparison(1)

SpecOps == InitOps /\ [][NextOps]_vars

(* ------------------------------------------------------------ the paginator *)

\* The invocation is a get_mentions call whose parameters were filled.
InMentionsLoop(p) ==
    /\ op[p].method = "get_mentions"
    /\ FillParams(op[p].name, op[p].startDate, op[p].kwargs).ok

\* The page index the i-th request of invocation p carries.
CallPage(p, i) == calls[p][i].params["page"][2]

\* Page i of the transport is answered without error and holds mentions.
NonEmptyPage(t, i) ==
    /\ ~PageEnvelope(t, i).errors
    /\ Len(PageEnvelope(t, i).results) > 0

\* Page i of the transport is answered without error and holds nothing.
EmptyPage(t, i) ==
    /\ ~PageEnvelope(t, i).errors
    /\ Len(PageEnvelope(t, i).results) = 0

\* Pages 0..k-1 hold mentions and page k is the first empty one.
FirstEmptyAt(t, k) ==
    /\ \A i \in 0..(k - 1) : NonEmptyPage(t, i)
    /\ EmptyPage(t, k)

\* The mentions of pages 0..k-1, in page order.
RECURSIVE ConcatPages(_, _)
ConcatPages(t, k) ==
    IF k = 0 THEN <<>>
    ELSE ConcatPages(t, k - 1) \o PageEnvelope(t, k - 1).results

\* C1: get_mentions with no max_pages and no page filter, against a transport
\* whose pages 0..k-1 hold mentions and whose page k is empty, ends by
\* returning the mentions of pages 0..k-1 in page order, after exactly k+1
\* page fetches (of pages 0, 1, ..., k).
C1_FetchUntilEmpty ==
    \A p \in Procs : \A k \in 0..NumPages :
        ( /\ pc[p] = "done"
          /\ InMentionsLoop(p)
          /\ IsNone(op[p].max_pages)
          /\ ~Has(op[p].kwargs, "page")
          /\ FirstEmptyAt(transport, k) )
        => /\ outcome[p] = "returned"
           /\ Len(calls[p]) = k + 1
           /\ \A i \in 1..Len(calls[p]) :
                 /\ calls[p][i].endpoint = "data/mentions/fulltext"
                 /\ CallPage(p, i) = i - 1
           /\ retval[p] = <<"list", ConcatPages(transport, k)>>

\* Two pages of mentions and an empty third: three fetches, both pages returned.
C1_Witness ==
    \E p \in Procs :
        /\ pc[p] = "done"
        /\ InMentionsLoop(p)
        /\ IsNone(op[p].max_pages)
        /\ ~Has(op[p].kwargs, "page")
        /\ FirstEmptyAt(transport, 2)
        /\ Len(calls[p]) = 3
        /\ Len(retval[p][2]) = 2 * MaxItems

\* C2: get_mentions with max_pages = m and the default starting page never
\* issues more than m page fetches, and against a transport whose pages
\* 0..m-1 all hold mentions it ends having issued exactly m.
C2_PaginationCap ==
    \A p \in Procs :
        ( /\ InMentionsLoop(p)
          /\ ~IsNone(op[p].max_pages)
          /\ ~Has(op[p].kwargs, "page") )
        => /\ Len(calls[p]) <= op[p].max_pages[2]
           /\ ( /\ pc[p] = "done"
                /\ \A i \in 0..(op[p].max_pages[2] - 1) : NonEmptyPage(transport, i) )
              => /\ outcome[p] = "returned"
                 /\ Len(calls[p]) = op[p].max_pages[2]

\* max_pages = 2 against pages that never run out: the call ends after two
\* fetches.
C2_Witness ==
    \E p \in Procs :
        /\ pc[p] = "done"
        /\ InMentionsLoop(p)
        /\ op[p].max_pages = IntV(2)
        /\ ~Has(op[p].kwargs, "page")
        /\ \A i \in 0..(NumPages - 1) : NonEmptyPage(transport, i)
        /\ transport.tail > 0
        /\ Len(calls[p]) = 2

\* C3: if the envelope of a page get_mentions fetched holds `errors`, that
\* fetch is the last one the call issues, the call has failed with
\* MentionsFetchError and has returned nothing, whatever it had accumulated.
C3_FetchErrorAborts ==
    \A p \in Procs :
        op[p].method = "get_mentions" =>
            \A i \in 1..Len(calls[p]) :
                PageEnvelope(transport, CallPage(p, i)).errors
                => /\ i = Len(calls[p])
                   /\ pc[p] = "done"
                   /\ outcome[p] = "raised"
                   /\ error[p][1] = "MentionsFetchError"
                   /\ retval[p] = NoValue

\* A fetch fails after mentions of earlier pages were accumulated.
C3_Witness ==
    \E p \in Procs :
        /\ op[p].method = "get_mentions"
        /\ Len(calls[p]) >= 2
        /\ PageEnvelope(transport, CallPage(p, Len(calls[p]))).errors
        /\ Len(all_mentions[p]) > 0
        /\ outcome[p] = "raised"

(* ------------------------------------------------- the required arguments *)

\* The public data operations of the model.
PublicOps ==
    {"get_mentions", "num_mentions", "get_topics", "get_summary_sentiment",
     "get_summary_topsites", "get_summary_pagetypes", "get_summary", "get_chart",
     "get_date_range_comparison"}

\* The arguments a method requires besides name and startDate are given: the
\* three axes of get_chart, date ranges that name a known range.
OwnArgumentsGiven(p) ==
    /\ op[p].method = "get_chart"
       => AxesPresent(op[p].y_axis, op[p].x_axis, op[p].breakdown_by)
    /\ op[p].method = "get_date_range_comparison"
       => /\ ~IsNone(op[p].date_ranges)
          /\ DateRangeIds(transport.date_ranges, op[p].date_ranges[2]) # <<>>

\* The required-argument error _fill_params owes the arguments of p, "" if none.
RequiredError(p) ==
    IF Falsy(op[p].name) THEN "MissingNameError"
    ELSE IF ~InIds(op[p].name) THEN "UnknownEntityError"
    ELSE IF Falsy(op[p].startDate) THEN "MissingStartDateError"
    ELSE ""

\* The error raised is the one owed.  Every error of the code is a Python
\* KeyError told apart by its message; the KeyError that the lookup ids[name]
\* of line 426 raises for a missing or unknown name is counted as theirs.
ErrorMatches(raised, owed) ==
    \/ raised = owed
    \/ raised = "KeyError" /\ owed \in {"MissingNameError", "UnknownEntityError"}

\* C4 (as claimed): every public data operation called with a missing name,
\* an unknown name or a missing startDate fails with the matching error, and
\* has issued no transport request when it fails.
C4_RequiredBeforeNetwork ==
    \A p \in Procs :
        ( /\ op[p].method \in PublicOps
          /\ pc[p] = "done"
          /\ OwnArgumentsGiven(p)
          /\ RequiredError(p) # "" )
        => /\ outcome[p] = "raised"
           /\ ErrorMatches(error[p][1], RequiredError(p))
           /\ calls[p] = <<>>

\* What C4 claims holds of every modelled operation but
\* get_date_range_comparison.
C4_ExceptDateRangeComparison ==
    \A p \in Procs :
        ( /\ op[p].method \in PublicOps \ {"get_date_range_comparison"}
          /\ pc[p] = "done"
          /\ OwnArgumentsGiven(p)
          /\ RequiredError(p) # "" )
        => /\ outcome[p] = "raised"
           /\ ErrorMatches(error[p][1], RequiredError(p))
           /\ calls[p] = <<>>

\* C9 (as claimed): get_summary returns exactly when the three accessors,
\* called with the same name, startDate and filters, all return, and then it
\* returns a mapping of exactly sentiment, topsites and pagetypes to their
\* three values.
C9_SummaryEqualsAccessors ==
    \A p \in Procs :
        (op[p].method = "get_summary" /\ pc[p] = "done") =>
            LET s == GetSummarySentimentRun(op[p].name, op[p].startDate, op[p].kwargs)
                t == GetSummaryTopsitesRun(op[p].name, op[p].startDate, op[p].kwargs)
                g == GetSummaryPagetypesRun(op[p].name, op[p].startDate, op[p].kwargs)
            IN  /\ (outcome[p] = "returned") <=> (s.ok /\ t.ok /\ g.ok)
                /\ outcome[p] = "returned" =>
                      /\ DOMAIN retval[p][2] = {"sentiment", "topsites", "pagetypes"}
                      /\ retval[p][2]["sentiment"] = s.value
                      /\ retval[p][2]["topsites"] = t.value
                      /\ retval[p][2]["pagetypes"] = g.value

\* Without filters get_summary does agree with the three accessors.
C9_AgreesWithoutFilters ==
    \A p \in Procs :
        (op[p].method = "get_summary" /\ pc[p] = "done" /\ op[p].kwargs = <<>>) =>
            LET s == GetSummarySentimentRun(op[p].name, op[p].startDate, op[p].kwargs)
                t == GetSummaryTopsitesRun(op[p].name, op[p].startDate, op[p].kwargs)
                g == GetSummaryPagetypesRun(op[p].name, op[p].startDate, op[p].kwargs)
            IN  /\ (outcome[p] = "returned") <=> (s.ok /\ t.ok /\ g.ok)
                /\ outcome[p] = "returned" =>
                      /\ DOMAIN retval[p][2] = {"sentiment", "topsites", "pagetypes"}
                      /\ retval[p][2]["sentiment"] = s.value
                      /\ retval[p][2]["topsites"] = t.value
                      /\ retval[p][2]["pagetypes"] = g.value

\* C10: get_chart called without one of y_axis, x_axis, breakdown_by fails
\* with MissingChartAxesError, whatever name, startDate and the filters are,
\* having built no parameters and issued no request.
C10_ChartAxesFirst ==
    \A p \in Procs :
        ( /\ op[p].method = "get_chart"
          /\ pc[p] = "done"
          /\ ~AxesPresent(op[p].y_axis, op[p].x_axis, op[p].breakdown_by) )
        => /\ outcome[p] = "raised"
           /\ error[p][1] = "MissingChartAxesError"
           /\ DOMAIN params[p] = {}
           /\ calls[p] = <<>>

\* An axis is absent while the name is missing and a filter is invalid too.
C10_Witness ==
    \E p \in Procs :
        /\ op[p].method = "get_chart"
        /\ pc[p] = "done"
        /\ IsNone(op[p].x_axis)
        /\ ~Falsy(op[p].y_axis)
        /\ Falsy(op[p].name)
        /\ op[p].kwargs = <<<<"sentiment", StrV("angry")>>>>
        /\ error[p][1] = "MissingChartAxesError"

(* ------------------------------------------------------ the date ranges *)

\* The date_ranges argument of p names no date range the transport lists
\* for the entity (None names none).
NoKnownDateRange(p) ==
    IF IsNone(op[p].date_ranges) THEN TRUE
    ELSE DateRangeIds(transport.date_ranges, op[p].date_ranges[2]) = <<>>

\* C11 (as claimed): get_date_range_comparison of a known entity whose
\* date_ranges resolve to no known date-range id, None included, fails with
\* InvalidDateRangeError and never requests data/volume/dateRanges/days.
C11_InvalidDateRange ==
    \A p \in Procs :
        ( /\ op[p].method = "get_date_range_comparison"
          /\ pc[p] = "done"
          /\ InIds(op[p].name)
          /\ NoKnownDateRange(p) )
        => /\ outcome[p] = "raised"
           /\ error[p][1] = "InvalidDateRangeError"
           /\ \A i \in DOMAIN calls[p] :
                 calls[p][i].endpoint # "data/volume/dateRanges/days"

\* What C11 claims holds when date_ranges is a list.
C11_HoldsForLists ==
    \A p \in Procs :
        ( /\ op[p].method = "get_date_range_comparison"
          /\ pc[p] = "done"
          /\ InIds(op[p].name)
          /\ ~IsNone(op[p].date_ranges)
          /\ NoKnownDateRange(p) )
        => /\ outcome[p] = "raised"
           /\ error[p][1] = "InvalidDateRangeError"
           /\ \A i \in DOMAIN calls[p] :
                 calls[p][i].endpoint # "data/volume/dateRanges/days"

(* ------------------------------------------------------ the unknown entity *)

\* C12 (as claimed): _fill_params of a name that is no key of ids fails with
\* UnknownEntityError, whatever startDate and the filters are.
C12_UnknownEntity ==
    \A p \in Procs :
        (FillDone(p) /\ ~InIds(op[p].name))
        => /\ outcome[p] = "raised"
           /\ error[p][1] = "UnknownEntityError"

\* C12 (amended): _fill_params of a truthy name that is no key of ids fails
\* with UnknownEntityError naming it, whatever startDate and the filters
\* are; a falsy name (None, "") fails with MissingNameError instead.
C12_UnknownEntityAmended ==
    \A p \in Procs :
        (FillDone(p) /\ ~InIds(op[p].name))
        => /\ outcome[p] = "raised"
           /\ IF Falsy(op[p].name)
              THEN error[p][1] = "MissingNameError"
              ELSE error[p] = <<"UnknownEntityError", op[p].name[2]>>

\* An unknown name, with no startDate and an invalid filter besides.
C12_Witness ==
    \E p \in Procs :
        /\ FillDone(p)
        /\ op[p].name = StrV("ghost")
        /\ Falsy(op[p].startDate)
        /\ op[p].kwargs = <<<<"page", StrV("x")>>>>
        /\ error[p][1] = "UnknownEntityError"

(* ------------------------------------------------------------- termination *)

\* get_mentions runs on: once inside the loop, the next test of the while
\* condition and the next fetch do happen (a fetch is one bounded
\* request/response exchange).
SpecLive ==
    /\ Init
    /\ [][Next]_vars
    /\ WF_vars(WhileExit(1))
    /\ WF_vars(FetchPage(1))

\* The transport answers an empty page at some index from page `from` on.
EventuallyEmpty(t, from) == \E i \in from..NumPages : EmptyPage(t, i)

\* Invocation p has just fetched the page its params carried.
Fetched(p) == calls'[p] = Append(calls[p], Req("data/mentions/fulltext", params[p]))

\* C13: a get_mentions call inside its loop ends, provided max_pages is set
\* or the transport has an empty page ahead.  A fetch of a page of mentions
\* moves the page index up by exactly one and stays in the loop; a fetch of
\* an empty page ends the call, whatever max_pages is; at the cap the call
\* ends without a fetch.
C13_Terminates ==
    /\ \A p \in Procs :
          ( /\ pc[p] = "loop"
            /\ \/ ~IsNone(op[p].max_pages)
               \/ EventuallyEmpty(transport, params[p]["page"][2]) )
          ~> (pc[p] = "done")
    /\ [][\A p \in Procs :
            pc[p] = "loop" =>
               LET page == params[p]["page"][2] IN
               /\ (Fetched(p) /\ NonEmptyPage(transport, page))
                  => /\ pc'[p] = "loop"
                     /\ params'[p]["page"][2] = page + 1
               /\ (Fetched(p) /\ EmptyPage(transport, page))
                  => /\ pc'[p] = "done"
                     /\ outcome'[p] = "returned"
               /\ (~IsNone(op[p].max_pages) /\ page >= op[p].max_pages[2] /\ pc'[p] # pc[p])
                  => /\ pc'[p] = "done"
                     /\ outcome'[p] = "returned"
                     /\ calls'[p] = calls[p]
               /\ pc'[p] = "loop" => params'[p]["page"][2] >= page
         ]_vars

\* A call with no max_pages has ended on the first empty page, after pages
\* of mentions.
C13_Witness ==
    \E p \in Procs :
        /\ pc[p] = "done"
        /\ InMentionsLoop(p)
        /\ IsNone(op[p].max_pages)
        /\ outcome[p] = "returned"
        /\ Len(calls[p]) = NumPages + 1
        /\ transport.tail = 0

(* ------------------------------------------------------- page index sequence *)

\* The page index get_mentions starts from: the `page` filter, else 0.
StartPage(p) == IF Has(op[p].kwargs, "page") THEN Get(op[p].kwargs, "page")[2] ELSE 0

\* The request parameters of a fetch, its page index set aside.
ApartFromPage(d) == [k \in (DOMAIN d) \ {"page"} |-> d[k]]

\* C15: the i-th fetch of a get_mentions call (counted from 0) asks the
\* mentions endpoint for page start+i, where start is the `page` filter or 0;
\* every fetch of the call carries the same parameters apart from the page
\* index, those the call was set up with (pageSize, entity id, startDate,
\* endDate, filters).
C15_PageSequence ==
    \A p \in Procs :
        InMentionsLoop(p) =>
            LET filled == FillParams(op[p].name, op[p].startDate, op[p].kwargs).filled
                setup  == MentionsParams(filled, op[p].kwargs)
            IN  \A i \in 1..Len(calls[p]) :
                    /\ calls[p][i].endpoint = "data/mentions/fulltext"
                    /\ CallPage(p, i) = StartPage(p) + (i - 1)
                    /\ ApartFromPage(calls[p][i].params) = ApartFromPage(setup)
                    /\ ApartFromPage(calls[p][i].params) = ApartFromPage(calls[p][1].params)
                    /\ \A j \in 1..Len(calls[p]) : i # j => CallPage(p, i) # CallPage(p, j)

\* A call that started from page 1 has fetched pages 1, 2 and 3.
C15_Witness ==
    \E p \in Procs :
        /\ InMentionsLoop(p)
        /\ StartPage(p) = 1
        /\ Len(calls[p]) = 3
        /\ CallPage(p, 3) = 3
        /\ pc[p] = "done"

(* ----------------------------------------------------- cap on the page index *)

\* m - p, or 0 when that is negative.
FetchesAllowed(m, p) == IF m > p THEN m - p ELSE 0

C16_NoFetchAtAll ==
    \E p \in Procs :
        /\ InMentionsLoop(p)
        /\ StartPage(p) = 1
        /\ op[p].max_pages = IntV(1)
        /\ pc[p] = "done"
        /\ calls[p] = <<>>
        /\ retval[p] = <<"list", <<>>>>

(* ------------------------------------------------------ concurrent invocations *)

\* Transports for two invocations at once: pages that never run out, pages
\* that run out after the mocked ones, a failing second page, one short page.
ConcTransports ==
    { [pages |-> [i \in 1..NumPages |-> [errors |-> FALSE, n |-> MaxItems]],
       tail |-> 1, date_ranges |-> DateRangeList],
      [pages |-> [i \in 1..NumPages |-> [errors |-> FALSE, n |-> 1]],
       tail |-> 0, date_ranges |-> DateRangeList],
      [pages |-> [i \in 1..NumPages |-> [errors |-> (i = 2), n |-> IF i = 2 THEN 0 ELSE 1]],
       tail |-> 0, date_ranges |-> DateRangeList],
      [pages |-> [i \in 1..NumPages |-> [errors |-> FALSE, n |-> IF i = 1 THEN 1 ELSE 0]],
       tail |-> 0, date_ranges |-> DateRangeList] }

InitConc ==
    /\ transport \in ConcTransports
    /\ IdleProcs

\* The callers of the two invocations name a known entity and a start date.
KnownEntityCall(self) ==
    /\ op'[self].name = StrV("q1")
    /\ ~Falsy(op'[self].startDate)

ConcGetMentions(self) == CallGetMentions(self) /\ KnownEntityCall(self)

ConcNumMentions(self) == NumMentions(self) /\ KnownEntityCall(self)

\* Two invocations on one instance; their steps interleave at will.
NextConc ==
    \/ ConcGetMentions(1)
    \/ WhileExit(1)
    \/ FetchPage(1)
    \/ ConcNumMentions(1)
    \/ ConcGetMentions(2)
    \/ WhileExit(2)
    \/ FetchPage(2)
    \/ ConcNumMentions(2)

SpecConc == InitConc /\ [][NextConc]_vars

\* One get_mentions invocation on its own, as the values of its locals:
\* lines 28-31, the call has filled its parameters or has failed.
AloneStart(o) ==
    LET r == FillParams(o.name, o.startDate, o.kwargs) IN
    IF r.ok
    THEN [pc |-> "loop", params |-> MentionsParams(r.filled, o.kwargs),
          all_mentions |-> <<>>, calls |-> <<>>,
          outcome |-> "none", error |-> NoError, retval |-> NoValue]
    ELSE [pc |-> "done", params |-> EmptyDict,
          all_mentions |-> <<>>, calls |-> <<>>,
          outcome |-> "raised", error |-> <<r.err, r.arg>>, retval |-> NoValue]

\* Lines 33-48: one test of the while condition with what follows it.
AloneStep(t, o, s) ==
    IF s.pc # "loop" THEN s
    ELSE IF ~LoopContinues(o.max_pages, s.params["page"])
    THEN [s EXCEPT !.pc = "done", !.outcome = "returned",
                   !.retval = <<"list", s.all_mentions>>]
    ELSE IF s.params["page"][2] >= MaxPageIndex THEN s
    ELSE LET page == s.params["page"]
             mentions == PageEnvelope(t, page[2])
             asked == Append(s.calls, Req("data/mentions/fulltext", s.params))
         IN  IF HasErrors(mentions)
             THEN [s EXCEPT !.calls = asked, !.pc = "done", !.outcome = "raised",
                            !.error = <<"MentionsFetchError", "">>]
             ELSE IF Len(mentions.results) > 0
             THEN [s EXCEPT !.calls = asked,
                            !.all_mentions = Accumulate(@, mentions.results),
                            !.params = Put(@, "page", NextPage(page))]
             ELSE [s EXCEPT !.calls = asked, !.pc = "done", !.outcome = "returned",
                            !.retval = <<"list", s.all_mentions>>]

RECURSIVE AloneAfter(_, _, _)
AloneAfter(t, o, n) ==
    IF n = 0 THEN AloneStart(o) ELSE AloneStep(t, o, AloneAfter(t, o, n - 1))

\* The whole run: no run takes more than MaxPageIndex fetches and one exit.
Alone(t, o) == AloneAfter(t, o, MaxPageIndex + 1)

IsPrefix(a, b) == Len(a) <= Len(b) /\ a = SubSeq(b, 1, Len(a))

\* C14: under every interleaving of two invocations on one instance, the
\* requests a get_mentions invocation has issued so far (page indices and
\* every other parameter) are the first requests of the same invocation run
\* alone, in the same order, and once it has ended its requests, its returned
\* list or its error are those of the run alone; a num_mentions invocation
\* likewise issues the request and gives the result of its run alone.
C14_NoInterference ==
    \A p \in Procs :
        /\ op[p].method = "get_mentions"
           => LET alone == Alone(transport, op[p]) IN
              /\ IsPrefix(calls[p], alone.calls)
              /\ pc[p] = "done"
                 => /\ alone.pc = "done"
                    /\ calls[p] = alone.calls
                    /\ outcome[p] = alone.outcome
                    /\ retval[p] = alone.retval
                    /\ error[p] = alone.error
        /\ op[p].method = "num_mentions"
           => LET alone == NumMentionsRun(op[p].name, op[p].startDate, op[p].kwargs) IN
              /\ pc[p] = "done"
              /\ calls[p] = alone.calls
              /\ outcome[p] = (IF alone.ok THEN "returned" ELSE "raised")
              /\ alone.ok => retval[p] = alone.value
              /\ ~alone.ok => error[p] = <<alone.err, alone.arg>>
        /\ op[p].method = ""
           => /\ pc[p] = "idle"
              /\ calls[p] = <<>>

\* Two get_mentions invocations with different starting pages are both in
\* their loops, each with fetches behind it.
C14_Witness ==
    /\ pc[1] = "loop"
    /\ pc[2] = "loop"
    /\ op[1].method = "get_mentions"
    /\ op[2].method = "get_mentions"
    /\ Has(op[1].kwargs, "page")
    /\ ~Has(op[2].kwargs, "page")
    /\ Len(calls[1]) >= 2
    /\ Len(calls[2]) >= 2

====
